---- MODULE Spec2Model ----
(***************************************************************************)
(* A model of rlgym_sim/utils/math.py: the vector kernel (get_dist,        *)
(* vector_projection, vecmag) and the orientation kernel (quat_to_euler,   *)
(* quat_to_rot_mtx, rotation_to_quaternion, other_rot_to_quat,             *)
(* euler_to_rotation), called by a client that owns the arrays it passes   *)
(* in and the arrays it gets back.                                         *)
(*                                                                         *)
(* Numbers.  The code computes in double precision; the model computes in  *)
(* exact arithmetic over the numbers (n/d) * sqrt(r), written <<n, d, r>>  *)
(* with d > 0, gcd(n, d) = 1 and r a squarefree positive integer (r = 1:   *)
(* a rational).  Products, quotients and square roots of rationals stay in *)
(* this form, and so do sums of two numbers with the same radical, which   *)
(* is all the modelled code needs on the inputs drawn below.               *)
(*                                                                         *)
(* Angles.  An angle is the point <<cos, sin>> of the unit circle, so that *)
(* arctan2, arcsin, cos, sin and negation are exact.                       *)
(***************************************************************************)
EXTENDS Integers, Sequences, FiniteSets, TLC

\* ------------------------------------------------------------- bounds
\* arrays of the orientation kernel: 3x3 matrices, 3-vectors
Dim == 3
\* quaternion components are drawn from -MaxQ..MaxQ
MaxQ == 2
\* diagonal entries of directly passed matrices are drawn from -MaxDiag..MaxDiag
MaxDiag == 2
\* off-diagonal entries of directly passed matrices: -MaxOff..MaxOff
MaxOff == 1
\* components of projected vectors: 0..MaxVec (vec), -MaxVec..MaxVec (dest_vec)
MaxVec == 1
\* the optional precomputed squared magnitude: None or 0..MaxMag
MaxMag == 2
\* components of get_dist's operands: 0..MaxDist
MaxDist == 1

\* ------------------------------------------------------------- numbers
Abs(i) == IF i < 0 THEN -i ELSE i

RECURSIVE GCD(_, _)
GCD(a, b) == IF b = 0 THEN a ELSE GCD(b, a % b)

RECURSIVE ISqrtFrom(_, _)
ISqrtFrom(n, k) == IF (k + 1) * (k + 1) > n THEN k ELSE ISqrtFrom(n, k + 1)

\* floor of the square root of a natural number
ISqrt(n) == ISqrtFrom(n, 0)

RECURSIVE SquarePartFrom(_, _)
SquarePartFrom(n, k) == IF n % (k * k) = 0 THEN k ELSE SquarePartFrom(n, k - 1)

\* the largest k with k*k dividing n, for n >= 1
SquarePart(n) == SquarePartFrom(n, ISqrt(n))

\* (n/d) * sqrt(r) in normal form; d # 0, r squarefree
Num(n, d, r) ==
    IF n = 0 THEN <<0, 1, 1>>
    ELSE LET g == GCD(Abs(n), Abs(d))
             s == IF d < 0 THEN -1 ELSE 1
         IN  <<s * (n \div g), s * (d \div g), r>>

R(i) == <<i, 1, 1>>
Frac(n, d) == Num(n, d, 1)
Zero == R(0)
One == R(1)
Two == R(2)
Half == Frac(1, 2)
Quarter == Frac(1, 4)

\* not a number of the model: a division by zero, the root of a negative
\* number (the code's inf and nan), or the sum of two different radicals
Undef == <<0, 0, 0>>

IsNumber(a) == a[2] > 0
IsRational(a) == IsNumber(a) /\ a[3] = 1

RNeg(a) == <<-a[1], a[2], a[3]>>

RMul(a, b) ==
    IF ~IsNumber(a) \/ ~IsNumber(b) THEN Undef
    ELSE LET g == GCD(a[3], b[3])
         IN  Num(a[1] * b[1] * g, a[2] * b[2], (a[3] \div g) * (b[3] \div g))

\* 1 / ((n/d) sqrt r) = (d / (n r)) sqrt r
RInv(a) ==
    IF ~IsNumber(a) \/ a[1] = 0 THEN Undef
    ELSE Num(a[2], a[1] * a[3], a[3])

RDiv(a, b) == RMul(a, RInv(b))

RAdd(a, b) ==
    IF ~IsNumber(a) \/ ~IsNumber(b) THEN Undef
    ELSE IF a[1] = 0 THEN b
    ELSE IF b[1] = 0 THEN a
    ELSE IF a[3] = b[3] THEN Num(a[1] * b[2] + b[1] * a[2], a[2] * b[2], a[3])
    ELSE Undef

RSub(a, b) == RAdd(a, RNeg(b))

\* the signed square sign(a) * a^2 as <<numerator, denominator>>: monotone in a
SignedSquare(a) ==
    <<(IF a[1] < 0 THEN -1 ELSE 1) * a[1] * a[1] * a[3], a[2] * a[2]>>

\* a comparison with Undef is false, as one with nan is
RLt(a, b) ==
    LET x == SignedSquare(a)
        y == SignedSquare(b)
    IN  x[1] * y[2] < y[1] * x[2]

RLe(a, b) == (IsNumber(a) /\ a = b) \/ RLt(a, b)
RGt(a, b) == RLt(b, a)
RGe(a, b) == RLe(b, a)
RAbs(a) == <<Abs(a[1]), a[2], a[3]>>

\* the square root of a rational a >= 0:
\* sqrt(n/d) = (kn / (kd rd)) sqrt(rn rd) where n = kn^2 rn, d = kd^2 rd
RSqrt(a) ==
    IF ~IsNumber(a) \/ a[1] < 0 \/ a[3] # 1 THEN Undef
    ELSE IF a[1] = 0 THEN Zero
    ELSE LET kn == SquarePart(a[1])
             kd == SquarePart(a[2])
             rn == a[1] \div (kn * kn)
             rd == a[2] \div (kd * kd)
         IN  Num(kn, kd * rd, rn * rd)

\* ------------------------------------------------------------- arrays
\* a vector is a sequence of numbers; a matrix is a sequence of rows, and the
\* code's m[i, j] (from 0) is M(m, i, j)
M(m, i, j) == m[i + 1][j + 1]

\* mag_squared=None
None == <<>>

RECURSIVE DotFrom(_, _, _)
DotFrom(a, b, i) ==
    IF i > Len(a) THEN Zero
    ELSE RAdd(RMul(a[i], b[i]), DotFrom(a, b, i + 1))

\* np.dot of two vectors of the same length
vecdot(a, b) == DotFrom(a, b, 1)

\* np.linalg.norm
vecmag(vec) == RSqrt(vecdot(vec, vec))

Scale(k, v) == [i \in 1..Len(v) |-> RMul(k, v[i])]
NegVec(v) == [i \in 1..Len(v) |-> RNeg(v[i])]

\* ------------------------------------------------------------- vector kernel
\* np.subtract broadcasts a length-1 operand and raises on any other mismatch
get_dist(x, y) ==
    IF Len(x) = Len(y)
    THEN [ok |-> TRUE, val |-> [i \in 1..Len(x) |-> RSub(x[i], y[i])]]
    ELSE IF Len(x) = 1
    THEN [ok |-> TRUE, val |-> [i \in 1..Len(y) |-> RSub(x[1], y[i])]]
    ELSE IF Len(y) = 1
    THEN [ok |-> TRUE, val |-> [i \in 1..Len(x) |-> RSub(x[i], y[1])]]
    ELSE [ok |-> FALSE, val |-> <<>>]

\* the squared magnitude vector_projection divides by, or None when it
\* returns early from the mag_squared-is-None block
projection_mag_squared(dest_vec, mag_squared) ==
    IF mag_squared = None
    THEN LET norm == vecmag(dest_vec)
         IN  IF norm = Zero THEN None ELSE RMul(norm, norm)
    ELSE mag_squared

\* a slip: the operands of np.divide swapped
projection_ratio_swapped(dot, mag_squared) == RDiv(mag_squared, dot)

\* np.divide(dot, mag_squared)
projection_ratio(dot, mag_squared) == RDiv(dot, mag_squared)

\* alias: the returned object is the argument dest_vec itself
vector_projection(vec, dest_vec, mag_squared) ==
    LET msq == projection_mag_squared(dest_vec, mag_squared)
    IN  IF msq = None THEN [alias |-> TRUE, val |-> dest_vec]
        ELSE IF msq = Zero THEN [alias |-> TRUE, val |-> dest_vec]
        ELSE LET dot == vecdot(vec, dest_vec)
             IN  [alias |-> FALSE,
                  val |-> Scale(projection_ratio(dot, msq), dest_vec)]

\* ------------------------------------------------------------- angles
HalfPi == <<Zero, One>>
NegAngle(a) == <<a[1], RNeg(a[2])>>
Cos(a) == a[1]
Sin(a) == a[2]

\* np.arctan2(y, x); arctan2(0, 0) = 0
ArcTan2(y, x) ==
    IF x = Zero /\ y = Zero THEN <<One, Zero>>
    ELSE LET h == RSqrt(RAdd(RMul(x, x), RMul(y, y)))
         IN  <<RDiv(x, h), RDiv(y, h)>>

\* np.arcsin(s) for |s| <= 1: the angle of sine s and cosine >= 0
ArcSin(s) == <<RSqrt(RSub(One, RMul(s, s))), s>>

\* ------------------------------------------------------------- orientation kernel
\* a slip: 2 (w y + z x)
quat_sinp_plus(quat) ==
    RMul(Two, RAdd(RMul(quat[1], quat[3]), RMul(quat[4], quat[2])))

quat_sinp(quat) ==
    RMul(Two, RSub(RMul(quat[1], quat[3]), RMul(quat[4], quat[2])))

quat_pitch(quat) ==
    LET sinp == quat_sinp(quat)
    IN  IF RGt(RAbs(sinp), One) THEN HalfPi ELSE ArcSin(sinp)

quat_to_euler(quat) ==
    LET w == quat[1]
        x == quat[2]
        y == quat[3]
        z == quat[4]
        sinr_cosp == RMul(Two, RAdd(RMul(w, x), RMul(y, z)))
        cosr_cosp == RSub(One, RMul(Two, RAdd(RMul(x, x), RMul(y, y))))
        siny_cosp == RMul(Two, RAdd(RMul(w, z), RMul(x, y)))
        cosy_cosp == RSub(One, RMul(Two, RAdd(RMul(y, y), RMul(z, z))))
        roll == ArcTan2(sinr_cosp, cosr_cosp)
        pitch == quat_pitch(quat)
        yaw == ArcTan2(siny_cosp, cosy_cosp)
    IN  <<NegAngle(pitch), yaw, NegAngle(roll)>>

ZeroMatrix == [i \in 1..Dim |-> [j \in 1..Dim |-> Zero]]

\* a slip: the dot product stops one component short
quat_norm_short(quat) ==
    RAdd(RAdd(RMul(quat[1], quat[1]), RMul(quat[2], quat[2])),
         RMul(quat[3], quat[3]))

\* norm = np.dot(quat, quat)
quat_norm(quat) == vecdot(quat, quat)

\* a slip: scaling by 1 / ||q|| where norm is already ||q||^2
quat_scale_root(norm) == RInv(RSqrt(norm))

\* s = 1.0 / norm
quat_scale(norm) == RInv(norm)

quat_to_rot_mtx(quat) ==
    LET w == RNeg(quat[1])
        x == RNeg(quat[2])
        y == RNeg(quat[3])
        z == RNeg(quat[4])
        norm == quat_norm(quat)
    IN  IF norm # Zero
        THEN LET s2 == RMul(Two, quat_scale(norm))
                 xx == RMul(x, x)
                 yy == RMul(y, y)
                 zz == RMul(z, z)
                 xy == RMul(x, y)
                 xz == RMul(x, z)
                 yz == RMul(y, z)
                 xw == RMul(x, w)
                 yw == RMul(y, w)
                 zw == RMul(z, w)
             IN  << <<RSub(One, RMul(s2, RAdd(yy, zz))),
                      RMul(s2, RSub(xy, zw)),
                      RMul(s2, RAdd(xz, yw))>>,
                    <<RMul(s2, RAdd(xy, zw)),
                      RSub(One, RMul(s2, RAdd(xx, zz))),
                      RMul(s2, RSub(yz, xw))>>,
                    <<RMul(s2, RSub(xz, yw)),
                      RMul(s2, RAdd(yz, xw)),
                      RSub(One, RMul(s2, RAdd(xx, yy)))>> >>
        ELSE ZeroMatrix

Trace(m) == RAdd(RAdd(M(m, 0, 0), M(m, 1, 1)), M(m, 2, 2))

\* a slip: 1 + m[i, i] - m[j, j] + m[k, k]
DiagTerm_sign(m, i, j, k) ==
    RAdd(RSub(RAdd(One, M(m, i, i)), M(m, j, j)), M(m, k, k))

\* 1 + m[i, i] - m[j, j] - m[k, k]
DiagTerm(m, i, j, k) ==
    RSub(RSub(RAdd(One, M(m, i, i)), M(m, j, j)), M(m, k, k))

\* a slip: m[0, 0] is compared with m[1, 1] only
rtq_branch_one_test(m) ==
    IF RGt(Trace(m), Zero) THEN "t"
    ELSE IF RGe(M(m, 0, 0), M(m, 1, 1)) THEN "x"
    ELSE IF RGt(M(m, 1, 1), M(m, 2, 2)) THEN "y"
    ELSE "z"

\* the branch rotation_to_quaternion takes: "t" (trace > 0) or the diagonal
\* entry it treats as dominant
rtq_branch(m) ==
    IF RGt(Trace(m), Zero) THEN "t"
    ELSE IF RGe(M(m, 0, 0), M(m, 1, 1)) /\ RGe(M(m, 0, 0), M(m, 2, 2)) THEN "x"
    ELSE IF RGt(M(m, 1, 1), M(m, 2, 2)) THEN "y"
    ELSE "z"

\* the branch other_rot_to_quat takes
other_branch(a) ==
    IF RGt(Trace(a), Zero) THEN "t"
    ELSE IF RGt(M(a, 0, 0), M(a, 1, 1)) /\ RGt(M(a, 0, 0), M(a, 2, 2)) THEN "x"
    ELSE IF RGt(M(a, 1, 1), M(a, 2, 2)) THEN "y"
    ELSE "z"

\* the expression under the square root in branch b
Radicand(m, b) ==
    IF b = "t" THEN RAdd(Trace(m), One)
    ELSE IF b = "x" THEN DiagTerm(m, 0, 1, 2)
    ELSE IF b = "y" THEN DiagTerm(m, 1, 0, 2)
    ELSE DiagTerm(m, 2, 0, 1)

\* a slip: s taken from the trace in every branch
rtq_radicand_trace(m) == RAdd(Trace(m), One)

rtq_radicand(m) == Radicand(m, rtq_branch(m))
other_radicand(a) == Radicand(a, other_branch(a))

\* q before the final negation, in branch b with s the root of the radicand
rtq_q(m, b, s) ==
    LET inv_s == RDiv(Half, s)
    IN  IF b = "t"
        THEN <<RMul(s, Half),
               RMul(RSub(M(m, 2, 1), M(m, 1, 2)), inv_s),
               RMul(RSub(M(m, 0, 2), M(m, 2, 0)), inv_s),
               RMul(RSub(M(m, 1, 0), M(m, 0, 1)), inv_s)>>
        ELSE IF b = "x"
        THEN <<RMul(RSub(M(m, 2, 1), M(m, 1, 2)), inv_s),
               RMul(Half, s),
               RMul(RAdd(M(m, 1, 0), M(m, 0, 1)), inv_s),
               RMul(RAdd(M(m, 2, 0), M(m, 0, 2)), inv_s)>>
        ELSE IF b = "y"
        THEN <<RMul(RSub(M(m, 0, 2), M(m, 2, 0)), inv_s),
               RMul(RAdd(M(m, 0, 1), M(m, 1, 0)), inv_s),
               RMul(Half, s),
               RMul(RAdd(M(m, 1, 2), M(m, 2, 1)), inv_s)>>
        ELSE <<RMul(RSub(M(m, 1, 0), M(m, 0, 1)), inv_s),
               RMul(RAdd(M(m, 0, 2), M(m, 2, 0)), inv_s),
               RMul(RAdd(M(m, 1, 2), M(m, 2, 1)), inv_s),
               RMul(Half, s)>>

\* ok = FALSE: the root of a negative number or a division by s = 0
rotation_to_quaternion(m) ==
    LET b == rtq_branch(m)
        rad == rtq_radicand(m)
    IN  IF RGt(rad, Zero)
        THEN [ok |-> TRUE, val |-> NegVec(rtq_q(m, b, RSqrt(rad)))]
        ELSE [ok |-> FALSE, val |-> <<>>]

\* q in branch b with root the square root of the radicand
other_q(a, b, root) ==
    IF b = "t"
    THEN LET s == RDiv(Half, root)
         IN  <<RDiv(Quarter, s),
               RMul(RSub(M(a, 2, 1), M(a, 1, 2)), s),
               RMul(RSub(M(a, 0, 2), M(a, 2, 0)), s),
               RMul(RSub(M(a, 1, 0), M(a, 0, 1)), s)>>
    ELSE LET s == RMul(Two, root)
         IN  IF b = "x"
             THEN <<RDiv(RSub(M(a, 2, 1), M(a, 1, 2)), s),
                    RMul(Quarter, s),
                    RDiv(RAdd(M(a, 0, 1), M(a, 1, 0)), s),
                    RDiv(RAdd(M(a, 0, 2), M(a, 2, 0)), s)>>
             ELSE IF b = "y"
             THEN <<RDiv(RSub(M(a, 0, 2), M(a, 2, 0)), s),
                    RDiv(RAdd(M(a, 0, 1), M(a, 1, 0)), s),
                    RMul(Quarter, s),
                    RDiv(RAdd(M(a, 1, 2), M(a, 2, 1)), s)>>
             ELSE <<RDiv(RSub(M(a, 1, 0), M(a, 0, 1)), s),
                    RDiv(RAdd(M(a, 0, 2), M(a, 2, 0)), s),
                    RDiv(RAdd(M(a, 1, 2), M(a, 2, 1)), s),
                    RMul(Quarter, s)>>

other_rot_to_quat(a) ==
    LET b == other_branch(a)
        rad == other_radicand(a)
    IN  IF RGt(rad, Zero)
        THEN [ok |-> TRUE, val |-> other_q(a, b, RSqrt(rad))]
        ELSE [ok |-> FALSE, val |-> <<>>]

euler_to_rotation(pyr) ==
    LET cp == Cos(pyr[1])
        cy == Cos(pyr[2])
        cr == Cos(pyr[3])
        sp == Sin(pyr[1])
        sy == Sin(pyr[2])
        sr == Sin(pyr[3])
    IN  << <<RMul(cp, cy),
             RSub(RMul(RMul(cy, sp), sr), RMul(cr, sy)),
             RSub(RNeg(RMul(RMul(cr, cy), sp)), RMul(sr, sy))>>,
           <<RMul(cp, sy),
             RAdd(RMul(RMul(sy, sp), sr), RMul(cr, cy)),
             RAdd(RNeg(RMul(RMul(cr, sy), sp)), RMul(sr, cy))>>,
           <<sp,
             RNeg(RMul(cp, sr)),
             RMul(cp, cr)>> >>

\* ------------------------------------------------------------- inputs
Ints(k) == {R(i) : i \in -k..k}
Nats(k) == {R(i) : i \in 0..k}

\* quaternions (w, x, y, z) with integer components
IntQuats == {<<w, x, y, z>> : w \in Ints(MaxQ), x \in Ints(MaxQ),
                               y \in Ints(MaxQ), z \in Ints(MaxQ)}

ZeroQuat == <<Zero, Zero, Zero, Zero>>

Normalize(v) == Scale(RInv(vecmag(v)), v)

\* the unit quaternions q / |q|
UnitQuats == {Normalize(q) : q \in IntQuats \ {ZeroQuat}}

QuatInputs == IntQuats \cup UnitQuats

IsUnit(q) == vecdot(q, q) = One

\* matrices passed directly: any diagonal, one value above and one below it
MatInputs ==
    {<< <<a, u, u>>, <<l, b, u>>, <<l, l, c>> >> :
        a \in Ints(MaxDiag), b \in Ints(MaxDiag), c \in Ints(MaxDiag),
        u \in Ints(MaxOff), l \in Ints(MaxOff)}

Vec3(S) == {<<a, b, c>> : a \in S, b \in S, c \in S}

MagInputs == {None} \cup Nats(MaxMag)

\* operands of get_dist: every length up to Dim
DistVecs ==
    UNION {[1..n -> Nats(MaxDist)] : n \in 1..Dim}

\* ------------------------------------------------------------- the client
VARIABLES
    pc,      \* "idle", "returned" (a call has returned), "mutated"
    fn,      \* the function called last
    heap,    \* the arrays alive: heap[a] is the content of the array at a
    args,    \* the addresses of the array arguments of the last call
    passed,  \* the values of all its arguments when it was called
    ret,     \* what it returned: the address of an array, or a raise
    prev     \* the call before it, when its result was passed on

vars == <<pc, fn, heap, args, passed, ret, prev>>

NoCall == [fn |-> "none", passed |-> <<>>, res |-> <<>>]
Raised == [kind |-> "raise", ref |-> 0]
Ref(a) == [kind |-> "ref", ref |-> a]

\* what a call hands back: a new array, one of its arguments, or a raise
New(v) == [kind |-> "new", val |-> v, ref |-> 0]
Arg(i) == [kind |-> "arg", val |-> <<>>, ref |-> i]
Raise == [kind |-> "raise", val |-> <<>>, ref |-> 0]
OkOrRaise(r) == IF r.ok THEN New(r.val) ELSE Raise

Init ==
    /\ pc = "idle"
    /\ fn = "none"
    /\ heap = <<>>
    /\ args = <<>>
    /\ passed = <<>>
    /\ ret = Raised
    /\ prev = NoCall

\* function f, called with the arrays at addresses a of heap h and argument
\* values p, returns out; no function of the module writes to an argument
Return(f, h, a, p, out, before) ==
    /\ pc' = "returned"
    /\ fn' = f
    /\ args' = a
    /\ passed' = p
    /\ heap' = IF out.kind = "new" THEN Append(h, out.val) ELSE h
    /\ ret' = IF out.kind = "new" THEN Ref(Len(h) + 1)
              ELSE IF out.kind = "arg" THEN Ref(a[out.ref])
              ELSE Raised
    /\ prev' = before

Result == heap[ret.ref]
ThisCall == [fn |-> fn, passed |-> passed, res |-> Result]

Call_get_dist ==
    /\ pc = "idle"
    /\ \E x \in DistVecs, y \in DistVecs :
        Return("get_dist", <<x, y>>, <<1, 2>>, <<x, y>>,
               OkOrRaise(get_dist(x, y)), NoCall)

Call_vector_projection ==
    /\ pc = "idle"
    /\ \E vec \in Vec3(Nats(MaxVec)), dest_vec \in Vec3(Ints(MaxVec)),
          mag_squared \in MagInputs :
        LET r == vector_projection(vec, dest_vec, mag_squared)
        IN  Return("vector_projection", <<vec, dest_vec>>, <<1, 2>>,
                   <<vec, dest_vec, mag_squared>>,
                   IF r.alias THEN Arg(2) ELSE New(r.val), NoCall)

Call_quat_to_euler ==
    /\ pc = "idle"
    /\ \E quat \in QuatInputs :
        Return("quat_to_euler", <<quat>>, <<1>>, <<quat>>,
               New(quat_to_euler(quat)), NoCall)

Call_quat_to_rot_mtx ==
    /\ pc = "idle"
    /\ \E quat \in QuatInputs :
        Return("quat_to_rot_mtx", <<quat>>, <<1>>, <<quat>>,
               New(quat_to_rot_mtx(quat)), NoCall)

Call_rotation_to_quaternion ==
    /\ pc = "idle"
    /\ \E m \in MatInputs :
        Return("rotation_to_quaternion", <<m>>, <<1>>, <<m>>,
               OkOrRaise(rotation_to_quaternion(m)), NoCall)

Call_other_rot_to_quat ==
    /\ pc = "idle"
    /\ \E a \in MatInputs :
        Return("other_rot_to_quat", <<a>>, <<1>>, <<a>>,
               OkOrRaise(other_rot_to_quat(a)), NoCall)

\* the matrix quat_to_rot_mtx returned is passed to rotation_to_quaternion
Pass_rotation_to_quaternion ==
    /\ pc = "returned"
    /\ fn = "quat_to_rot_mtx"
    /\ Return("rotation_to_quaternion", heap, <<ret.ref>>, <<Result>>,
              OkOrRaise(rotation_to_quaternion(Result)), ThisCall)

\* the matrix passed to rotation_to_quaternion is passed to other_rot_to_quat
Pass_other_rot_to_quat ==
    /\ pc = "returned"
    /\ fn = "rotation_to_quaternion"
    /\ ret.kind = "ref"
    /\ Return("other_rot_to_quat", heap, args, passed,
              OkOrRaise(other_rot_to_quat(heap[args[1]])), ThisCall)

\* the angles quat_to_euler returned for a unit quaternion are passed to
\* euler_to_rotation
Pass_euler_to_rotation ==
    /\ pc = "returned"
    /\ fn = "quat_to_euler"
    /\ IsUnit(passed[1])
    /\ Return("euler_to_rotation", heap, <<ret.ref>>, <<Result>>,
              New(euler_to_rotation(Result)), ThisCall)

Flip(x) == IF x = Zero THEN One ELSE RNeg(x)

\* the caller writes to element 0 of the array it got back
Overwrite(f, v) ==
    IF f \in {"quat_to_rot_mtx", "euler_to_rotation"}
    THEN [v EXCEPT ![1][1] = Flip(@)]
    ELSE IF f = "quat_to_euler"
    THEN [v EXCEPT ![1] = <<Flip(@[1]), @[2]>>]
    ELSE [v EXCEPT ![1] = Flip(@)]

Mutate ==
    /\ pc = "returned"
    /\ ret.kind = "ref"
    /\ heap' = [heap EXCEPT ![ret.ref] = Overwrite(fn, @)]
    /\ pc' = "mutated"
    /\ UNCHANGED <<fn, args, passed, ret, prev>>

\* the caller drops every array and starts over
Release ==
    /\ pc \in {"returned", "mutated"}
    /\ pc' = "idle"
    /\ fn' = "none"
    /\ heap' = <<>>
    /\ args' = <<>>
    /\ passed' = <<>>
    /\ ret' = Raised
    /\ prev' = NoCall

Next ==
    \/ Call_get_dist
    \/ Call_vector_projection
    \/ Call_quat_to_euler
    \/ Call_quat_to_rot_mtx
    \/ Call_rotation_to_quaternion
    \/ Call_other_rot_to_quat
    \/ Pass_rotation_to_quaternion
    \/ Pass_other_rot_to_quat
    \/ Pass_euler_to_rotation
    \/ Mutate
    \/ Release

Spec == Init /\ [][Next]_vars

\* ------------------------------------------------------------- properties
AtReturn(f) == pc = "returned" /\ fn = f

Col(m, j) == <<M(m, 0, j), M(m, 1, j), M(m, 2, j)>>

Identity == [i \in 1..Dim |-> [j \in 1..Dim |-> IF i = j THEN One ELSE Zero]]

\* m^T m = I: the columns front, left, up are unit length and orthogonal
IsOrthonormal(m) ==
    [i \in 1..Dim |-> [j \in 1..Dim |-> vecdot(Col(m, i - 1), Col(m, j - 1))]]
        = Identity

Det(m) ==
    RAdd(RSub(RMul(M(m, 0, 0), RSub(RMul(M(m, 1, 1), M(m, 2, 2)),
                                    RMul(M(m, 1, 2), M(m, 2, 1)))),
              RMul(M(m, 0, 1), RSub(RMul(M(m, 1, 0), M(m, 2, 2)),
                                    RMul(M(m, 1, 2), M(m, 2, 0))))),
         RMul(M(m, 0, 2), RSub(RMul(M(m, 1, 0), M(m, 2, 1)),
                               RMul(M(m, 1, 1), M(m, 2, 0)))))

IsRotation(m) == IsOrthonormal(m) /\ Det(m) = One

SameUpToSign(p, q) == p = q \/ p = NegVec(q)

IsNumberVec(v) == \A i \in 1..Len(v) : IsNumber(v[i])

\* every number the calls produce on the inputs drawn is a number of the model
ResultsAreNumbers ==
    (pc = "returned" /\ ret.kind = "ref") =>
        IF fn \in {"quat_to_rot_mtx", "euler_to_rotation"}
        THEN \A i \in 1..Dim : IsNumberVec(Result[i])
        ELSE IF fn = "quat_to_euler"
        THEN \A i \in 1..Dim : IsNumberVec(Result[i])
        ELSE IsNumberVec(Result)

\* the unit quaternion whose matrix was passed on to rotation_to_quaternion
RoundTripCase ==
    /\ AtReturn("rotation_to_quaternion")
    /\ prev.fn = "quat_to_rot_mtx"
    /\ IsUnit(prev.passed[1])

\* C1: for every unit quaternion q, rotation_to_quaternion(quat_to_rot_mtx(q))
\* is q or -q, in each of the four branches
C1_RoundTrip ==
    RoundTripCase =>
        /\ ret.kind = "ref"
        /\ SameUpToSign(Result, prev.passed[1])

C1_Witness ==
    /\ RoundTripCase
    /\ rtq_branch(passed[1]) = "z"
    /\ ret.kind = "ref"
    /\ Result = prev.passed[1]

\* both methods have been applied to the same rotation matrix
BothMethodsCase ==
    /\ AtReturn("other_rot_to_quat")
    /\ prev.fn = "rotation_to_quaternion"
    /\ IsRotation(passed[1])

\* C2: on every rotation matrix (orthonormal, determinant 1) the results of
\* rotation_to_quaternion and other_rot_to_quat are equal or negations of each
\* other, also where the two select different branches on a tie
C2_MethodsAgree ==
    BothMethodsCase =>
        /\ ret.kind = "ref"
        /\ SameUpToSign(Result, prev.res)

C2_Witness ==
    /\ BothMethodsCase
    /\ rtq_branch(passed[1]) = "x"
    /\ other_branch(passed[1]) = "z"
    /\ ret.kind = "ref"
    /\ Result = NegVec(prev.res)

\* C5: whatever the matrix, the expression under the square root of the branch
\* taken is strictly positive, in both methods, and the call returns
C5_RadicandPositive ==
    /\ AtReturn("rotation_to_quaternion") =>
        RGt(rtq_radicand(passed[1]), Zero) /\ ret.kind = "ref"
    /\ AtReturn("other_rot_to_quat") =>
        RGt(other_radicand(passed[1]), Zero) /\ ret.kind = "ref"

C5_Witness ==
    /\ AtReturn("rotation_to_quaternion")
    /\ ~IsOrthonormal(passed[1])
    /\ RLt(Trace(passed[1]), Zero)
    /\ rtq_branch(passed[1]) = "y"
    /\ RLt(M(passed[1], 1, 1), Zero)
    /\ ret.kind = "ref"

\* the angles of a unit quaternion away from gimbal lock were passed on to
\* euler_to_rotation
EulerCase ==
    /\ AtReturn("euler_to_rotation")
    /\ prev.fn = "quat_to_euler"
    /\ IsUnit(prev.passed[1])
    /\ RLt(RAbs(quat_sinp(prev.passed[1])), One)

\* C3: for every unit quaternion q with |2(wy - zx)| < 1,
\* euler_to_rotation(quat_to_euler(q)) equals quat_to_rot_mtx(q) entry by entry
C3_EulerRoundTrip ==
    EulerCase => Result = quat_to_rot_mtx(prev.passed[1])

C3_Witness ==
    /\ EulerCase
    /\ \A i \in 1..Dim : Sin(passed[1][i]) # Zero /\ Cos(passed[1][i]) # Zero
    /\ ~IsRational(Cos(passed[1][1]))
    /\ Result = quat_to_rot_mtx(prev.passed[1])

\* C4: quat_to_rot_mtx returns, and returns the all-zero matrix exactly when
\* the squared norm of the quaternion is 0
C4_ZeroMatrixIffZeroNorm ==
    AtReturn("quat_to_rot_mtx") =>
        /\ ret.kind = "ref"
        /\ (Result = ZeroMatrix) <=> (vecdot(passed[1], passed[1]) = Zero)

C4_Witness ==
    /\ AtReturn("quat_to_rot_mtx")
    /\ passed[1] = ZeroQuat
    /\ Result = ZeroMatrix

\* C6: when |sinp| > 1 the pitch is clamped to the pole of the sign of sinp
\* before the negation, so the first component returned is -pi/2 for sinp > 1
\* and +pi/2 for sinp < -1; and the pitch returned always lies in [-pi/2, pi/2]
C6_ClampKeepsSign ==
    AtReturn("quat_to_euler") =>
        LET sinp == quat_sinp(passed[1])
        IN  /\ RGt(sinp, One) => Result[1] = NegAngle(HalfPi)
            /\ RLt(sinp, RNeg(One)) => Result[1] = HalfPi
            /\ RGe(Cos(Result[1]), Zero)

ZeroVec == <<Zero, Zero, Zero>>

\* C7: with dest_vec of zero magnitude, vector_projection returns a vector
\* equal to dest_vec whatever vec and mag_squared (None, zero or nonzero) are
C7_ZeroOnto ==
    (AtReturn("vector_projection") /\ passed[2] = ZeroVec) =>
        /\ ret.kind = "ref"
        /\ Result = passed[2]

C7_Witness ==
    /\ AtReturn("vector_projection")
    /\ passed[2] = ZeroVec
    /\ passed[1] # ZeroVec
    /\ passed[3] # None
    /\ passed[3] # Zero
    /\ ret = Ref(3)
    /\ Result = ZeroVec

\* C8: get_dist raises when the lengths differ and returns the element-wise
\* difference, of the same length, when they are equal
C8_LengthMismatchRaises ==
    AtReturn("get_dist") =>
        IF Len(passed[1]) # Len(passed[2])
        THEN ret.kind = "raise"
        ELSE /\ ret.kind = "ref"
             /\ Len(Result) = Len(passed[1])
             /\ \A i \in 1..Len(Result) :
                    Result[i] = RSub(passed[1][i], passed[2][i])

\* C9: whatever the caller writes to an array it got back, the arrays it
\* passed in keep the values they had when they were passed
C9_InputsKeepTheirValue ==
    pc \in {"returned", "mutated"} =>
        \A i \in DOMAIN args : heap[args[i]] = passed[i]

ScaleFactors == {R(-1), R(2), R(-3), Half}

\* C10: for every quaternion of nonzero norm the matrix M of quat_to_rot_mtx
\* satisfies M^T M = I, and scaling the quaternion by a nonzero k keeps M
C10_OrthonormalAndScaleFree ==
    (AtReturn("quat_to_rot_mtx") /\ vecdot(passed[1], passed[1]) # Zero) =>
        /\ IsOrthonormal(Result)
        /\ \A k \in ScaleFactors :
               quat_to_rot_mtx(Scale(k, passed[1])) = Result

C10_Witness ==
    /\ AtReturn("quat_to_rot_mtx")
    /\ ~IsUnit(passed[1])
    /\ \A i \in 1..4 : passed[1][i] # Zero
    /\ IsOrthonormal(Result)
    /\ quat_to_rot_mtx(Scale(R(-3), passed[1])) = Result

====
